---- MODULE Spec2Model ----
(***************************************************************************)
(* A model of calconsteroids: the two value engines (the closed enum of    *)
(* src/src/value.rs over i128, and the trait objects of                    *)
(* src/src/value/rational.rs over a sign and two BigUint), the expression  *)
(* trees of src/src/expression.rs and src/src/expression/ with their       *)
(* simplifier, evaluator and renderer, and the parser of src/src/parse.rs. *)
(*                                                                         *)
(* Every operation of the program is a pure function.  The state machine   *)
(* records one call at a time: which operation ran (op), its operands      *)
(* (lhs, rhs) and what came out (out); a result may then be simplified     *)
(* again, evaluated or displayed.  RationalValue::add and ::sub call each  *)
(* other; their call chain is stepped one call at a time on an explicit    *)
(* stack (pc, stack).                                                      *)
(***************************************************************************)
EXTENDS Integers, Sequences, FiniteSets, TLC

VARIABLES op, lhs, rhs, out, pc, stack, overflow_checks

vars == <<op, lhs, rhs, out, pc, stack, overflow_checks>>

(***************************************************************************)
(* Bounds of the model.                                                    *)
(***************************************************************************)
\* Numerators of the operands are drawn from -MaxNum..MaxNum (0..MaxNum with a sign
\* for RationalValue).
MaxNum == 2
\* Denominators of the operands are drawn from 1..MaxDen.
MaxDen == 3
\* factorial is applied to 0/1 .. MaxFactorial/1 (34! is the first to exceed i128).
MaxFactorial == 34
\* The number of nested calls the thread's stack holds before it overflows.
StackLimit == 6
\* The longest integer part and the longest fractional part of a literal, in digits.
MaxIntDigits == 2
MaxFracDigits == 2

\* The most operands an implicit multiplication has.
MaxImplicit == 3

None == [kind |-> "None"]

(***************************************************************************)
(* src/src/value.rs: enum Value over i128.                                 *)
(***************************************************************************)
Rational(numerator, denominator) ==
    [kind |-> "Rational", num |-> numerator, den |-> denominator]

Undefined == [kind |-> "Undefined", num |-> 0, den |-> 0]

\* Value::Expression(Box<Expression>): the arithmetic never looks inside it.
ExpressionValue == [kind |-> "Expression", num |-> 0, den |-> 0]

\* The outcome of a call that panicked (unwrap of an Err, a division by zero, an
\* overflow under overflow checks, an explicit panic!).
Panic == [kind |-> "Panic", num |-> 0, den |-> 0]

\* Err(ValueError::BadVariant(value)) of simplify_rational.
BadVariant == [kind |-> "BadVariant", num |-> 0, den |-> 0]

Abs(n) == IF n < 0 THEN -n ELSE n

\* i128 `/`: truncates toward zero; the caller has excluded b = 0.
TruncDiv(a, b) ==
    IF (a < 0) = (b < 0) THEN Abs(a) \div Abs(b) ELSE -(Abs(a) \div Abs(b))

\* num::integer::gcd on i128: the non-negative greatest common divisor, gcd(0, 0) = 0.
RECURSIVE gcd(_, _)
gcd(m, n) == IF n = 0 THEN Abs(m) ELSE gcd(Abs(n), Abs(m) % Abs(n))

\* num::integer::lcm on i128: |m * (n / gcd(m, n))|, and 0 when both are 0.
lcm(m, n) ==
    IF m = 0 /\ n = 0 THEN 0 ELSE Abs(m * TruncDiv(n, gcd(m, n)))

simplify_rational(value) ==
    IF value.kind = "Rational"
    THEN LET gcf == gcd(value.num, value.den)
         IN  IF gcf = 0
             THEN Panic  \* numerator / gcf: attempt to divide by zero
             ELSE Rational(TruncDiv(value.num, gcf), TruncDiv(value.den, gcf))
    ELSE BadVariant

\* Result::unwrap
unwrap(result) == IF result.kind = "BadVariant" THEN Panic ELSE result

Value_add(self, other) ==
    IF self.kind = "Rational" /\ other.kind = "Rational"
    THEN LET common_den == lcm(self.den, other.den)
         IN  IF self.den = 0 \/ other.den = 0
             THEN Panic  \* common_den / self_den or common_den / other_den divides by zero
             ELSE LET self_num  == self.num * TruncDiv(common_den, self.den)
                      other_num == other.num * TruncDiv(common_den, other.den)
                  IN  unwrap(simplify_rational(Rational(self_num + other_num, common_den)))
    ELSE Undefined

\* Value_sub with a non-Rational right operand taken for zero.
Value_sub_lenient(self, other) ==
    IF self.kind = "Rational" /\ other.kind = "Rational"
    THEN LET common_den == lcm(self.den, other.den)
         IN  IF self.den = 0 \/ other.den = 0
             THEN Panic
             ELSE LET self_num  == self.num * TruncDiv(common_den, self.den)
                      other_num == other.num * TruncDiv(common_den, other.den)
                  IN  unwrap(simplify_rational(Rational(self_num - other_num, common_den)))
    ELSE IF self.kind = "Rational" THEN self ELSE Undefined

Value_sub(self, other) ==
    IF self.kind = "Rational" /\ other.kind = "Rational"
    THEN LET common_den == lcm(self.den, other.den)
         IN  IF self.den = 0 \/ other.den = 0
             THEN Panic  \* common_den / self_den or common_den / other_den divides by zero
             ELSE LET self_num  == self.num * TruncDiv(common_den, self.den)
                      other_num == other.num * TruncDiv(common_den, other.den)
                  IN  unwrap(simplify_rational(Rational(self_num - other_num, common_den)))
    ELSE Undefined

Value_mul(self, other) ==
    IF self.kind = "Rational" /\ other.kind = "Rational"
    THEN unwrap(simplify_rational(Rational(self.num * other.num, self.den * other.den)))
    ELSE Undefined

Value_div(self, other) ==
    IF self.kind = "Rational" /\ other.kind = "Rational"
    THEN unwrap(simplify_rational(Rational(self.num * other.den, self.den * other.num)))
    ELSE Undefined

Value_neg(self) ==
    IF self.kind = "Rational"
    THEN unwrap(simplify_rational(Rational(-self.num, self.den)))
    ELSE Undefined

Value_eq(self, other) ==
    IF self.kind = "Rational" /\ other.kind = "Rational"
    THEN self.num * other.den = other.num * self.den
    ELSE FALSE

(***************************************************************************)
(* i128 in factorial.  The products leave the checker's integers long      *)
(* before they leave i128, so factorial's accumulator, and the numerator   *)
(* it returns, are kept as 16-bit limbs, least significant first, without  *)
(* high zero limbs.                                                        *)
(***************************************************************************)
LimbBase == 2 ^ 16

I128Limbs == 128 \div 16

RECURSIVE MulLimbs(_, _, _)
MulLimbs(limbs, k, carry) ==
    IF limbs = <<>>
    THEN IF carry = 0 THEN <<>> ELSE <<carry % LimbBase>> \o MulLimbs(<<>>, k, carry \div LimbBase)
    ELSE LET p == Head(limbs) * k + carry
         IN  <<p % LimbBase>> \o MulLimbs(Tail(limbs), k, p \div LimbBase)

RECURSIVE Normalize(_)
Normalize(limbs) ==
    IF limbs # <<>> /\ limbs[Len(limbs)] = 0
    THEN Normalize(SubSeq(limbs, 1, Len(limbs) - 1))
    ELSE limbs

\* The exact product exceeds i128::MAX = 2^127 - 1.
ExceedsI128(limbs) ==
    \/ Len(limbs) > I128Limbs
    \/ Len(limbs) = I128Limbs /\ limbs[I128Limbs] >= LimbBase \div 2

\* The low 128 bits: what a wrapping multiplication leaves.
WrapI128(limbs) ==
    Normalize(SubSeq(limbs, 1, IF Len(limbs) < I128Limbs THEN Len(limbs) ELSE I128Limbs))

\* i128 as two's complement: the value of a 128-bit pattern, as a sign and the
\* limbs of a magnitude.
RECURSIVE TwosComplement(_, _)
TwosComplement(limbs, carry) ==
    IF limbs = <<>> THEN <<>>
    ELSE LET t == (LimbBase - 1 - Head(limbs)) + carry
         IN  <<t % LimbBase>> \o TwosComplement(Tail(limbs), t \div LimbBase)

Wide(negative, magnitude) == [neg |-> negative, mag |-> magnitude]

FromPattern(limbs) ==
    IF Len(limbs) = I128Limbs /\ limbs[I128Limbs] >= LimbBase \div 2
    THEN Wide(TRUE, Normalize(TwosComplement(limbs, 1)))
    ELSE Wide(FALSE, limbs)

\* The number limbs stand for, where the checker's integers hold it (below 2^31).
FromLimbs(limbs) ==
    IF Len(limbs) = 0 THEN 0
    ELSE IF Len(limbs) = 1 THEN limbs[1]
    ELSE limbs[1] + limbs[2] * LimbBase

\* A value of factorial with its numerator an integer again, where the checker's
\* integers hold it; as it is where they do not.
FromWide(value) ==
    IF /\ value.kind = "Rational"
       /\ \/ Len(value.num.mag) < 2
          \/ Len(value.num.mag) = 2 /\ value.num.mag[2] < LimbBase \div 2
    THEN [value EXCEPT !.num = IF value.num.neg THEN -FromLimbs(value.num.mag)
                                                ELSE FromLimbs(value.num.mag)]
    ELSE value

\* for i in 2..=numerator { result *= i; } with result: i128.  `*=` panics on
\* overflow when the build has overflow checks (debug) and wraps when it has not
\* (release).
RECURSIVE factorial_loop(_, _, _)
factorial_loop(result, i, numerator) ==
    IF i > numerator THEN [overflowed |-> FALSE, value |-> FromPattern(result)]
    ELSE LET product == MulLimbs(result, i, 0)
         IN  IF ExceedsI128(product) /\ overflow_checks
             THEN [overflowed |-> TRUE, value |-> Wide(FALSE, <<>>)]  \* attempt to multiply with overflow
             ELSE factorial_loop(WrapI128(product), i + 1, numerator)

factorial(self) ==
    IF self.kind = "Rational"
    THEN IF self.num < 0 \/ self.den # 1
         THEN Undefined
         ELSE LET result == factorial_loop(<<1>>, 2, self.num)
              IN  IF result.overflowed THEN Panic ELSE Rational(result.value, self.den)
    ELSE Undefined

(***************************************************************************)
(* src/src/value/rational.rs and src/src/value/undefined.rs: the trait     *)
(* objects.  A RationalValue is a Sign and two BigUint.                    *)
(***************************************************************************)
RationalValue(sign, numerator, denominator) ==
    [kind |-> "RationalValue", sign |-> sign, num |-> numerator, den |-> denominator]

UndefinedValue == [kind |-> "UndefinedValue", sign |-> "Positive", num |-> 0, den |-> 0]

\* The outcomes of a call that does not return: a panic, and the abort of a thread
\* that has run out of stack.
PanicValue == [kind |-> "Panic", sign |-> "Positive", num |-> 0, den |-> 0]

StackOverflow == [kind |-> "StackOverflow", sign |-> "Positive", num |-> 0, den |-> 0]

Sign_opposite(sign) == IF sign = "Positive" THEN "Negative" ELSE "Positive"

Sign_bitxor(self, other) ==
    IF (self = "Positive" /\ other = "Negative") \/ (self = "Negative" /\ other = "Positive")
    THEN "Negative"
    ELSE "Positive"

\* Some(other) of other.downcast_ref::<RationalValue>()
downcast_ref(value) == value.kind = "RationalValue"

simplified(self) ==
    LET g == gcd(self.num, self.den)
    IN  IF g = 0
        THEN PanicValue  \* BigUint / 0: attempt to divide by zero
        ELSE RationalValue(self.sign, self.num \div g, self.den \div g)

get_opposite(self) == RationalValue(Sign_opposite(self.sign), self.num, self.den)

get_reciprocal(self) == RationalValue(self.sign, self.den, self.num)

RationalValue_mul(self, other) ==
    IF downcast_ref(other)
    THEN RationalValue(Sign_bitxor(self.sign, other.sign),
                       self.num * other.num, self.den * other.den)
    ELSE UndefinedValue

RationalValue_div(self, other) ==
    IF downcast_ref(other)
    THEN RationalValue_mul(self, get_reciprocal(other))
    ELSE UndefinedValue

\* Ord::cmp on BigUint
Ordering(m, n) == IF m < n THEN "Less" ELSE IF m = n THEN "Equal" ELSE "Greater"

RationalValue_cmp(self, other) ==
    IF downcast_ref(other)
    THEN Ordering(self.num * other.den, other.num * self.den)
    ELSE "None"

\* impl Value for UndefinedValue: add, sub, mul and div are the same body.
UndefinedValue_op(self, other) == UndefinedValue

(***************************************************************************)
(* RationalValue::add and ::sub, one call at a time.  A frame is a call    *)
(* in progress; its site says what the caller does with the callee's       *)
(* result: "tail" returns it as it is, "opposite" (sub, negative self)     *)
(* downcasts it and returns its opposite.                                  *)
(***************************************************************************)
Frame(fn, self, other) == [fn |-> fn, self |-> self, other |-> other, site |-> "none"]

Returns(value) == [do |-> "return", value |-> value]

Calls(site, fn, self, other) == [do |-> "call", site |-> site, frame |-> Frame(fn, self, other)]

\* The body of add, up to its first call or its return.
add_body(self, other) ==
    IF downcast_ref(other)
    THEN IF other.sign = "Negative"
         THEN Calls("tail", "sub", self, get_opposite(other))
         ELSE IF self.sign = "Negative"
              THEN Calls("tail", "sub", other, get_opposite(self))
              ELSE Returns(simplified(RationalValue("Positive",
                               self.num * other.den + other.num * self.den,
                               self.den * other.den)))
    ELSE Returns(UndefinedValue)

\* The body of sub, up to its first call or its return.
sub_body(self, other) ==
    IF downcast_ref(other)
    THEN IF other.sign = "Negative"
         THEN Calls("tail", "add", self, get_opposite(other))
         ELSE IF self.sign = "Negative"
              THEN Calls("opposite", "add", self, get_opposite(other))
              ELSE IF self.num * other.den < other.num * self.den
                   THEN Returns(PanicValue)  \* BigUint - BigUint below zero panics
                   ELSE Returns(simplified(RationalValue("Positive",
                                    self.num * other.den - other.num * self.den,
                                    self.den * other.den)))
    ELSE Returns(UndefinedValue)

\* What the caller makes of its callee's result.
resume(site, value) ==
    IF site = "opposite"
    THEN IF downcast_ref(value)
         THEN get_opposite(value)
         ELSE PanicValue  \* panic!("Unexpected error: ...")
    ELSE value

(***************************************************************************)
(* Parsing a literal.  A string is a sequence of one-character strings.    *)
(***************************************************************************)
DecimalDigits == <<"0", "1", "2", "3", "4", "5", "6", "7", "8", "9">>

is_digit(c) == \E i \in DOMAIN DecimalDigits : DecimalDigits[i] = c

to_digit(c) == (CHOOSE i \in DOMAIN DecimalDigits : DecimalDigits[i] = c) - 1

\* The number a string of decimal digits spells.
RECURSIVE digits_value(_)
digits_value(s) ==
    IF s = <<>> THEN 0
    ELSE digits_value(SubSeq(s, 1, Len(s) - 1)) * 10 + to_digit(s[Len(s)])

all_digits(s) == s # <<>> /\ \A i \in DOMAIN s : is_digit(s[i])

\* str::split_once('.'): the text before and after the first '.', if there is one.
split_once(s) ==
    IF \E i \in DOMAIN s : s[i] = "."
    THEN LET at == CHOOSE i \in DOMAIN s : s[i] = "." /\ \A j \in 1..(i - 1) : s[j] # "."
         IN  [found |-> TRUE, before |-> SubSeq(s, 1, at - 1), after |-> SubSeq(s, at + 1, Len(s))]
    ELSE [found |-> FALSE, before |-> s, after |-> <<>>]

\* str::parse::<i128>: an optional '+' or '-', then one or more decimal digits.
parse_i128(s) ==
    IF s # <<>> /\ s[1] \in {"+", "-"}
    THEN IF all_digits(Tail(s))
         THEN [ok |-> TRUE, value |-> IF s[1] = "-" THEN -digits_value(Tail(s))
                                                    ELSE digits_value(Tail(s))]
         ELSE [ok |-> FALSE, value |-> 0]
    ELSE IF all_digits(s)
         THEN [ok |-> TRUE, value |-> digits_value(s)]
         ELSE [ok |-> FALSE, value |-> 0]

\* i128::checked_ilog10(..).unwrap_or(0): the floor of the common logarithm of a
\* positive number, and 0 for any other.
RECURSIVE ilog10_or_zero(_)
ilog10_or_zero(n) == IF n < 10 THEN 0 ELSE 1 + ilog10_or_zero(n \div 10)

\* Err(ValueParseError { string })
ValueParseError == [kind |-> "ValueParseError", num |-> 0, den |-> 0]

Value_from_str(s) ==
    LET parts   == split_once(s)
        integer == parse_i128(parts.before)
        decimal == IF parts.found THEN parse_i128(parts.after) ELSE [ok |-> TRUE, value |-> 0]
    IN  IF ~integer.ok \/ ~decimal.ok
        THEN ValueParseError
        ELSE LET exponent    == ilog10_or_zero(decimal.value)
                 numerator   == integer.value * 10 ^ exponent + decimal.value
                 denominator == 10 ^ exponent
             IN  Rational(numerator, denominator)

\* str::trim_end_matches('0')
RECURSIVE trim_end_zeros(_)
trim_end_zeros(s) ==
    IF s # <<>> /\ s[Len(s)] = "0" THEN trim_end_zeros(SubSeq(s, 1, Len(s) - 1)) ELSE s

\* BigUint::from_str: an optional '+', then one or more decimal digits.
BigUint_from_str(s) ==
    LET digits == IF s # <<>> /\ s[1] = "+" THEN Tail(s) ELSE s
    IN  IF all_digits(digits)
        THEN [ok |-> TRUE, value |-> digits_value(digits)]
        ELSE [ok |-> FALSE, value |-> 0]

\* Err(ParseBigIntError)
ParseBigIntError == [kind |-> "ParseBigIntError", sign |-> "Positive", num |-> 0, den |-> 0]

\* The two arms of from_str differ in the sign alone.
RationalValue_from_str_signed(sign, s) ==
    LET parts == split_once(s)
    IN  IF parts.found
        THEN LET combined  == trim_end_zeros(parts.before \o parts.after)
                 numerator == BigUint_from_str(combined)
             IN  IF numerator.ok
                 THEN RationalValue(sign, numerator.value, Len(parts.after))
                 ELSE ParseBigIntError
        ELSE LET numerator == BigUint_from_str(s)
             IN  IF numerator.ok
                 THEN RationalValue(sign, numerator.value, 1)
                 ELSE ParseBigIntError

RationalValue_from_str(s) ==
    IF s # <<>> /\ s[1] = "-"
    THEN RationalValue_from_str_signed("Negative", Tail(s))
    ELSE RationalValue_from_str_signed("Positive", s)

(***************************************************************************)
(* src/src/expression.rs: the expression tree and its evaluator.           *)
(***************************************************************************)
ValueExpr(v) == [tag |-> "Value", v |-> v]

VariableExpr(n) == [tag |-> "Variable", n |-> n]

BinaryExpr(tag, a, b) == [tag |-> tag, a |-> a, b |-> b]

UnaryExpr(tag, e) == [tag |-> tag, e |-> e]

\* Err(EvaluationError::CantEvaluateVariant)
CantEvaluateVariant == [kind |-> "CantEvaluateVariant", num |-> 0, den |-> 0]

\* The `?` operator returns at once on an Err; a panic unwinds through every caller.
stops(result) == result.kind \in {"CantEvaluateVariant", "Panic"}

\* evaluate_variable with a missing key made a failure.
evaluate_variable_strict(n, variable_map) ==
    IF n \in DOMAIN variable_map THEN variable_map[n] ELSE CantEvaluateVariant

\* variable_map.get(n).unwrap_or(&Value::Undefined).to_owned()
evaluate_variable(n, variable_map) ==
    IF n \in DOMAIN variable_map THEN variable_map[n] ELSE Undefined

\* The operator an arm applies once its operands are evaluated.
apply_binary(tag, a, b) ==
    CASE tag = "Addition"       -> Value_add(a, b)
      [] tag = "Subtraction"    -> Value_sub(a, b)
      [] tag = "Multiplication" -> Value_mul(a, b)
      [] tag = "Division"       -> Value_div(a, b)

RECURSIVE evaluate(_, _)
evaluate(self, variable_map) ==
    CASE self.tag = "Value"    -> self.v
      [] self.tag = "Variable" -> evaluate_variable(self.n, variable_map)
      [] self.tag \in {"Addition", "Subtraction", "Multiplication", "Division"} ->
            LET a == evaluate(self.a, variable_map)
            IN  IF stops(a) THEN a
                ELSE LET b == evaluate(self.b, variable_map)
                     IN  IF stops(b) THEN b ELSE apply_binary(self.tag, a, b)
      [] self.tag = "Negation" ->
            LET v == evaluate(self.e, variable_map)
            IN  IF stops(v) THEN v ELSE Value_neg(v)
      [] self.tag = "Factorial" ->
            LET v == evaluate(self.e, variable_map)
            IN  IF stops(v) THEN v ELSE FromWide(factorial(v))
      [] self.tag = "Equals" -> CantEvaluateVariant

(***************************************************************************)
(* src/src/expression.rs: the one-step simplifier.  A panic inside a fold   *)
(* unwinds through every enclosing call: no tree is returned.              *)
(***************************************************************************)
PanicExpr == [tag |-> "Panic"]

\* Expression::Value(a.to_owned() <op> b.to_owned())
fold(tag, a, b) ==
    LET v == apply_binary(tag, a.v, b.v)
    IN  IF v.kind = "Panic" THEN PanicExpr ELSE ValueExpr(v)

\* A simplifier whose Negation and Factorial arms fold a literal, as the binary
\* arms do.
RECURSIVE Expression_simplified_folding(_)
Expression_simplified_folding(self) ==
    CASE self.tag \in {"Value", "Variable"} -> self
      [] self.tag \in {"Addition", "Subtraction", "Multiplication", "Division"} ->
            LET a == Expression_simplified_folding(self.a)
                b == Expression_simplified_folding(self.b)
            IN  IF a.tag = "Panic" THEN a
                ELSE IF b.tag = "Panic" THEN b
                ELSE IF a.tag = "Value" /\ b.tag = "Value"
                     THEN fold(self.tag, a, b)
                     ELSE BinaryExpr(self.tag, a, b)
      [] self.tag = "Negation" ->
            LET e == Expression_simplified_folding(self.e)
            IN  IF e.tag = "Panic" THEN e
                ELSE IF e.tag = "Value" /\ Value_neg(e.v).kind # "Panic"
                     THEN ValueExpr(Value_neg(e.v))
                     ELSE UnaryExpr(self.tag, e)
      [] self.tag = "Factorial" ->
            LET e == Expression_simplified_folding(self.e)
            IN  IF e.tag = "Panic" THEN e ELSE UnaryExpr(self.tag, e)
      [] self.tag = "Equals" ->
            LET a == Expression_simplified_folding(self.a)
                b == Expression_simplified_folding(self.b)
            IN  IF a.tag = "Panic" THEN a
                ELSE IF b.tag = "Panic" THEN b
                ELSE BinaryExpr(self.tag, a, b)

\* A simplifier that folds a node over the children as they were given, before
\* simplifying them: a pass folds one level only.
RECURSIVE Expression_simplified_shallow(_)
Expression_simplified_shallow(self) ==
    CASE self.tag \in {"Value", "Variable"} -> self
      [] self.tag \in {"Addition", "Subtraction", "Multiplication", "Division"} ->
            IF self.a.tag = "Value" /\ self.b.tag = "Value"
            THEN fold(self.tag, self.a, self.b)
            ELSE LET a == Expression_simplified_shallow(self.a)
                     b == Expression_simplified_shallow(self.b)
                 IN  IF a.tag = "Panic" THEN a
                     ELSE IF b.tag = "Panic" THEN b
                     ELSE BinaryExpr(self.tag, a, b)
      [] self.tag \in {"Negation", "Factorial"} ->
            LET e == Expression_simplified_shallow(self.e)
            IN  IF e.tag = "Panic" THEN e ELSE UnaryExpr(self.tag, e)
      [] self.tag = "Equals" ->
            LET a == Expression_simplified_shallow(self.a)
                b == Expression_simplified_shallow(self.b)
            IN  IF a.tag = "Panic" THEN a
                ELSE IF b.tag = "Panic" THEN b
                ELSE BinaryExpr(self.tag, a, b)

RECURSIVE Expression_simplified(_)
Expression_simplified(self) ==
    CASE self.tag = "Value"    -> ValueExpr(self.v)
      [] self.tag = "Variable" -> VariableExpr(self.n)
      [] self.tag \in {"Addition", "Subtraction", "Multiplication", "Division"} ->
            LET a == Expression_simplified(self.a)
            IN  IF a.tag = "Panic" THEN a
                ELSE LET b == Expression_simplified(self.b)
                     IN  IF b.tag = "Panic" THEN b
                         ELSE IF a.tag = "Value" /\ b.tag = "Value"
                              THEN fold(self.tag, a, b)
                              ELSE BinaryExpr(self.tag, a, b)
      [] self.tag \in {"Negation", "Factorial"} ->
            LET e == Expression_simplified(self.e)
            IN  IF e.tag = "Panic" THEN e ELSE UnaryExpr(self.tag, e)
      [] self.tag = "Equals" ->
            LET a == Expression_simplified(self.a)
            IN  IF a.tag = "Panic" THEN a
                ELSE LET b == Expression_simplified(self.b)
                     IN  IF b.tag = "Panic" THEN b ELSE BinaryExpr(self.tag, a, b)

(***************************************************************************)
(* src/src/expression/*.rs: the trait-object expressions over dyn Value.    *)
(***************************************************************************)
ValueExpression(value) == [tag |-> "ValueExpression", value |-> value]

BinaryExpression(tag, l, r) == [tag |-> tag, lhs |-> l, rhs |-> r]

\* A whole call of add or sub on a dyn Value: the chain of calls of
\* RationalValue::add and ::sub run to its end, depth frames deep so far.
RECURSIVE dyn_add_sub(_, _, _, _)
dyn_add_sub(fn, self, other, depth) ==
    IF ~downcast_ref(self)
    THEN UndefinedValue_op(self, other)
    ELSE LET step == IF fn = "add" THEN add_body(self, other) ELSE sub_body(self, other)
         IN  IF step.do = "return"
             THEN step.value
             ELSE IF depth >= StackLimit
                  THEN StackOverflow
                  ELSE LET value == dyn_add_sub(step.frame.fn, step.frame.self,
                                                step.frame.other, depth + 1)
                       IN  IF value.kind \in {"Panic", "StackOverflow"}
                           THEN value
                           ELSE resume(step.site, value)

\* lhs.get_value().add(..), .sub(..), .mul(..), .div(..)
dyn_apply(tag, a, b) ==
    CASE tag = "AdditionExpression"    -> dyn_add_sub("add", a, b, 1)
      [] tag = "SubtractionExpression" -> dyn_add_sub("sub", a, b, 1)
      [] tag = "MultiplicationExpression" ->
            IF downcast_ref(a) THEN RationalValue_mul(a, b) ELSE UndefinedValue_op(a, b)
      [] tag = "DivisionExpression" ->
            IF downcast_ref(a) THEN RationalValue_div(a, b) ELSE UndefinedValue_op(a, b)

RECURSIVE dyn_simplified(_)
dyn_simplified(self) ==
    IF self.tag = "ValueExpression"
    THEN ValueExpression(self.value)
    ELSE LET l == dyn_simplified(self.lhs)
         IN  IF l.tag = "Panic" THEN l
             ELSE LET r == dyn_simplified(self.rhs)
                  IN  IF r.tag = "Panic" THEN r
                      ELSE IF l.tag = "ValueExpression" /\ r.tag = "ValueExpression"
                           THEN LET v == dyn_apply(self.tag, l.value, r.value)
                                IN  IF v.kind \in {"Panic", "StackOverflow"}
                                    THEN PanicExpr
                                    ELSE ValueExpression(v)
                           ELSE BinaryExpression(self.tag, l, r)

(***************************************************************************)
(* src/src/parse.rs: from the pairs of the grammar to the tree.  A pair is  *)
(* a rule, the text it matched and its inner pairs.  The text of a number   *)
(* is a sequence of characters; the text of a variable, a name of one       *)
(* character, is that character.                                            *)
(***************************************************************************)
Pair(rule, str, inner) == [rule |-> rule, str |-> str, inner |-> inner]

\* pest's PrattParser: every .op(..) call is one precedence level, PREC_STEP above the
\* one before it.
PREC_STEP == 10

\* A parser whose prefix level is declared before the multiplicative level.
PARSER_prefix_loose ==
    [plus      |-> [affix |-> "Infix",   prec |-> 2 * PREC_STEP],
     minus     |-> [affix |-> "Infix",   prec |-> 2 * PREC_STEP],
     negate    |-> [affix |-> "Prefix",  prec |-> 3 * PREC_STEP],
     cdot      |-> [affix |-> "Infix",   prec |-> 4 * PREC_STEP],
     asterisk  |-> [affix |-> "Infix",   prec |-> 4 * PREC_STEP],
     slash     |-> [affix |-> "Infix",   prec |-> 4 * PREC_STEP],
     factorial |-> [affix |-> "Postfix", prec |-> 5 * PREC_STEP]]

\* PARSER: the affix and the precedence of each operator rule.
PARSER ==
    [plus      |-> [affix |-> "Infix",   prec |-> 2 * PREC_STEP],
     minus     |-> [affix |-> "Infix",   prec |-> 2 * PREC_STEP],
     cdot      |-> [affix |-> "Infix",   prec |-> 3 * PREC_STEP],
     asterisk  |-> [affix |-> "Infix",   prec |-> 3 * PREC_STEP],
     slash     |-> [affix |-> "Infix",   prec |-> 3 * PREC_STEP],
     negate    |-> [affix |-> "Prefix",  prec |-> 4 * PREC_STEP],
     factorial |-> [affix |-> "Postfix", prec |-> 5 * PREC_STEP]]

\* self.pratt.ops.get(&pair.as_rule())
ops_get(rule) == IF rule \in DOMAIN PARSER THEN PARSER[rule] ELSE None

\* What a step of the parser hands back: the tree so far and the pairs not yet read.
Parsed(tree, rest) == [tree |-> tree, rest |-> rest]

\* map_infix
map_infix(left, op_pair, right) ==
    CASE op_pair.rule = "plus"     -> BinaryExpr("Addition", left, right)
      [] op_pair.rule = "minus"    -> BinaryExpr("Subtraction", left, right)
      [] op_pair.rule = "cdot"     -> BinaryExpr("Multiplication", left, right)
      [] op_pair.rule = "asterisk" -> BinaryExpr("Multiplication", left, right)
      [] op_pair.rule = "slash"    -> BinaryExpr("Division", left, right)
      [] OTHER                     -> PanicExpr  \* unreachable!

\* map_prefix
map_prefix(op_pair, right) ==
    IF op_pair.rule = "negate" THEN UnaryExpr("Negation", right) ELSE PanicExpr

\* map_postfix
map_postfix(left, op_pair) ==
    IF op_pair.rule = "factorial" THEN UnaryExpr("Factorial", left) ELSE PanicExpr

\* Rule::number: primary.as_str().parse().unwrap()
map_number(primary) ==
    LET value == Value_from_str(primary.str)
    IN  IF value.kind = "Rational" THEN ValueExpr(value) ELSE PanicExpr

\* pairs.peek(): the precedence of the next pair, 0 at the end, -1 for the panic
\* "Expected operator".
lbp(pairs) ==
    IF pairs = <<>>
    THEN 0
    ELSE LET found == ops_get(pairs[1].rule)
         IN  IF found = None THEN -1 ELSE found.prec

RECURSIVE parse_pairs(_)
RECURSIVE implicit_multiplication_swapped(_, _, _)
RECURSIVE implicit_multiplication(_, _, _)
RECURSIVE map_primary(_)
RECURSIVE nud(_)
RECURSIVE led(_, _)
RECURSIVE led_loop(_, _, _)
RECURSIVE expr(_, _)

\* The loop with the two operands of Multiplication the other way round.
implicit_multiplication_swapped(inner, i, expression) ==
    IF expression.tag = "Panic" \/ i = 0
    THEN expression
    ELSE LET operand == parse_pairs(<<inner[i]>>)
         IN  IF operand.tag = "Panic"
             THEN operand
             ELSE implicit_multiplication_swapped(inner, i - 1,
                      BinaryExpr("Multiplication", expression, operand))

\* for pair in inner { expression = Multiplication(parse_pairs(pair), expression) }:
\* the operands before the i-th, last to first, wrapped around expression.
implicit_multiplication(inner, i, expression) ==
    IF expression.tag = "Panic" \/ i = 0
    THEN expression
    ELSE LET operand == parse_pairs(<<inner[i]>>)
         IN  IF operand.tag = "Panic"
             THEN operand
             ELSE implicit_multiplication(inner, i - 1,
                      BinaryExpr("Multiplication", operand, expression))

\* map_primary
map_primary(primary) ==
    CASE primary.rule = "number"   -> map_number(primary)
      [] primary.rule = "variable" -> VariableExpr(primary.str)
      [] primary.rule = "implicit_multiplication" ->
            IF primary.inner = <<>>
            THEN PanicExpr  \* inner.next().unwrap()
            ELSE implicit_multiplication(primary.inner, Len(primary.inner) - 1,
                     parse_pairs(<<primary.inner[Len(primary.inner)]>>))
      [] primary.rule \in {"paren_expression", "expression"} -> parse_pairs(primary.inner)
      [] OTHER -> PanicExpr  \* unreachable!("Unexpected rule: {:?}", rule)

\* nud: a prefix operator and its operand, or a primary.
nud(pairs) ==
    IF pairs = <<>>
    THEN Parsed(PanicExpr, <<>>)  \* "Pratt parsing expects non-empty Pairs"
    ELSE LET pair  == pairs[1]
             found == ops_get(pair.rule)
         IN  IF found = None
             THEN Parsed(map_primary(pair), Tail(pairs))
             ELSE IF found.affix = "Prefix"
                  THEN LET right == expr(Tail(pairs), found.prec - 1)
                       IN  IF right.tree.tag = "Panic"
                           THEN right
                           ELSE Parsed(map_prefix(pair, right.tree), right.rest)
                  ELSE Parsed(PanicExpr, <<>>)  \* "Expected prefix or primary expression"

\* led: an infix operator and its right operand, or a postfix operator.
led(pairs, left) ==
    LET pair  == pairs[1]
        found == ops_get(pair.rule)
    IN  IF found = None
        THEN Parsed(PanicExpr, <<>>)  \* "Expected postfix or infix expression"
        ELSE IF found.affix = "Infix"
             THEN LET right == expr(Tail(pairs), found.prec)  \* Assoc::Left
                  IN  IF right.tree.tag = "Panic"
                      THEN right
                      ELSE Parsed(map_infix(left, pair, right.tree), right.rest)
             ELSE IF found.affix = "Postfix"
                  THEN Parsed(map_postfix(left, pair), Tail(pairs))
                  ELSE Parsed(PanicExpr, <<>>)

\* while rbp < self.lbp(pairs) { lhs = self.led(pairs, lhs) }
led_loop(left, pairs, rbp) ==
    IF left.tag = "Panic" \/ lbp(pairs) = -1
    THEN Parsed(PanicExpr, <<>>)
    ELSE IF rbp < lbp(pairs)
         THEN LET next == led(pairs, left)
              IN  led_loop(next.tree, next.rest, rbp)
         ELSE Parsed(left, pairs)

\* expr
expr(pairs, rbp) ==
    LET first == nud(pairs)
    IN  led_loop(first.tree, first.rest, rbp)

\* parse_pairs: PARSER.map_primary(..).map_infix(..).map_prefix(..).map_postfix(..)
\* .parse(pairs)
parse_pairs(pairs) == expr(pairs, 0).tree

(***************************************************************************)
(* The renderers: impl fmt::Display for Value and for Expression, and the   *)
(* to_string of the trait objects.  A text is a sequence of characters.     *)
(***************************************************************************)
\* The decimal digits of a natural number.
RECURSIVE fmt_digits(_)
fmt_digits(n) ==
    IF n < 10
    THEN <<DecimalDigits[n + 1]>>
    ELSE fmt_digits(n \div 10) \o <<DecimalDigits[(n % 10) + 1]>>

\* impl Display for i128: a '-' before the digits of a negative number.
fmt_i128(n) == IF n < 0 THEN <<"-">> \o fmt_digits(-n) ELSE fmt_digits(n)

\* impl fmt::Display for Value.  A Value::Expression writes the expression in its
\* box; the model's ExpressionValue has none and is never displayed.
Value_fmt(self) ==
    CASE self.kind = "Rational" ->
            IF self.den = 1
            THEN fmt_i128(self.num)
            ELSE fmt_i128(self.num) \o <<"/">> \o fmt_i128(self.den)
      [] self.kind = "Undefined" -> <<"u", "n", "d", "e", "f", "i", "n", "e", "d">>

\* "({a} <symbol> {b})"
parenthesized(a, symbol, b) == <<"(">> \o a \o <<" ", symbol, " ">> \o b \o <<")">>

\* A renderer that leaves out the operator and the parentheses of a multiplication
\* whenever its right operand is a variable, too.
RECURSIVE Expression_fmt_eliding(_)
Expression_fmt_eliding(self) ==
    CASE self.tag = "Value"    -> Value_fmt(self.v)
      [] self.tag = "Variable" -> <<self.n>>
      [] self.tag = "Addition" ->
            parenthesized(Expression_fmt_eliding(self.a), "+", Expression_fmt_eliding(self.b))
      [] self.tag = "Subtraction" ->
            parenthesized(Expression_fmt_eliding(self.a), "-", Expression_fmt_eliding(self.b))
      [] self.tag = "Multiplication" ->
            IF self.a.tag = "Value" \/ self.b.tag = "Variable"
            THEN Expression_fmt_eliding(self.a) \o Expression_fmt_eliding(self.b)
            ELSE parenthesized(Expression_fmt_eliding(self.a), "*",
                               Expression_fmt_eliding(self.b))
      [] self.tag = "Division" ->
            parenthesized(Expression_fmt_eliding(self.a), "/", Expression_fmt_eliding(self.b))
      [] self.tag = "Negation" -> <<"-", "(">> \o Expression_fmt_eliding(self.e) \o <<")">>
      [] self.tag = "Factorial" -> <<"(">> \o Expression_fmt_eliding(self.e) \o <<")", "!">>
      [] self.tag = "Equals" ->
            parenthesized(Expression_fmt_eliding(self.a), "=", Expression_fmt_eliding(self.b))

\* impl fmt::Display for Expression
RECURSIVE Expression_fmt(_)
Expression_fmt(self) ==
    CASE self.tag = "Value"    -> Value_fmt(self.v)
      [] self.tag = "Variable" -> <<self.n>>
      [] self.tag = "Addition" ->
            parenthesized(Expression_fmt(self.a), "+", Expression_fmt(self.b))
      [] self.tag = "Subtraction" ->
            parenthesized(Expression_fmt(self.a), "-", Expression_fmt(self.b))
      [] self.tag = "Multiplication" ->
            CASE self.a.tag = "Value" /\ self.b.tag = "Variable" ->
                    Value_fmt(self.a.v) \o <<self.b.n>>
              [] self.a.tag = "Variable" /\ self.b.tag = "Variable" ->
                    <<self.a.n>> \o <<self.b.n>>
              [] self.a.tag = "Value" /\ self.b.tag # "Variable" ->
                    Value_fmt(self.a.v) \o Expression_fmt(self.b)
              [] OTHER ->
                    parenthesized(Expression_fmt(self.a), "*", Expression_fmt(self.b))
      [] self.tag = "Division" ->
            parenthesized(Expression_fmt(self.a), "/", Expression_fmt(self.b))
      [] self.tag = "Negation" -> <<"-", "(">> \o Expression_fmt(self.e) \o <<")">>
      [] self.tag = "Factorial" -> <<"(">> \o Expression_fmt(self.e) \o <<")", "!">>
      [] self.tag = "Equals" ->
            parenthesized(Expression_fmt(self.a), "=", Expression_fmt(self.b))

\* RationalValue::to_string, UndefinedValue::to_string
dyn_Value_to_string(self) ==
    IF downcast_ref(self)
    THEN LET sign == IF self.sign = "Negative" THEN <<"-">> ELSE <<>>
         IN  IF self.den = 1
             THEN sign \o fmt_digits(self.num)
             ELSE sign \o fmt_digits(self.num) \o <<"/">> \o fmt_digits(self.den)
    ELSE <<"u", "n", "d", "e", "f", "i", "n", "e", "d">>

\* The to_string of the trait-object expressions.
RECURSIVE dyn_to_string(_)
dyn_to_string(self) ==
    CASE self.tag = "ValueExpression" -> dyn_Value_to_string(self.value)
      [] self.tag = "AdditionExpression" ->
            parenthesized(dyn_to_string(self.lhs), "+", dyn_to_string(self.rhs))
      [] self.tag = "SubtractionExpression" ->
            parenthesized(dyn_to_string(self.lhs), "-", dyn_to_string(self.rhs))
      [] self.tag = "MultiplicationExpression" ->
            parenthesized(dyn_to_string(self.lhs), "*", dyn_to_string(self.rhs))
      [] self.tag = "DivisionExpression" ->
            parenthesized(dyn_to_string(self.lhs), "/", dyn_to_string(self.rhs))

(***************************************************************************)
(* The operands.                                                           *)
(***************************************************************************)
Rationals == {Rational(n, d) : n \in -MaxNum..MaxNum, d \in 1..MaxDen}

Values == Rationals \cup {Undefined, ExpressionValue}

FactorialOperands == Values \cup {Rational(n, 1) : n \in 0..MaxFactorial}

RationalValues ==
    {RationalValue(s, n, d) : s \in {"Positive", "Negative"}, n \in 0..MaxNum, d \in 1..MaxDen}

DynValues == RationalValues \cup {UndefinedValue}

\* The literals: an optional '-', one to MaxIntDigits digits and, optionally, a '.'
\* and one to MaxFracDigits digits.
LiteralDigits == {"0", "1", "5"}

DigitStrings(longest) == UNION {[1..k -> LiteralDigits] : k \in 1..longest}

Literals ==
    {sign \o int \o frac :
        sign \in {<<>>, <<"-">>},
        int \in DigitStrings(MaxIntDigits),
        frac \in {<<>>} \cup {<<".">> \o f : f \in DigitStrings(MaxFracDigits)}}

\* The trees: the leaves, every node over leaves, and every node over one such node
\* and a leaf.
Leaves ==
    {ValueExpr(Rational(0, 1)), ValueExpr(Rational(2, 1)), ValueExpr(Rational(1, 2)),
     VariableExpr("x"), VariableExpr("y")}

BinaryTags == {"Addition", "Subtraction", "Multiplication", "Division", "Equals"}

UnaryTags == {"Negation", "Factorial"}

NodesOver(lefts, rights, inners) ==
    {BinaryExpr(t, a, b) : t \in BinaryTags, a \in lefts, b \in rights}
        \cup {UnaryExpr(t, e) : t \in UnaryTags, e \in inners}

Shallow == Leaves \cup NodesOver(Leaves, Leaves, Leaves)

Trees ==
    Shallow \cup NodesOver(Shallow, Leaves, Shallow) \cup NodesOver(Leaves, Shallow, {})

\* The trees handed to the simplifier: Trees, and the sum of one half and one third.
SimplifyTrees ==
    Trees \cup {BinaryExpr("Addition", ValueExpr(Rational(1, 2)), ValueExpr(Rational(1, 3)))}

\* The trait-object trees: the literals, every node over two literals, and every
\* node over one such node and a literal.
DynLeaves ==
    {ValueExpression(v) :
        v \in {RationalValue("Positive", 0, 1), RationalValue("Positive", 1, 1),
               RationalValue("Negative", 1, 1), RationalValue("Positive", 1, 2),
               RationalValue("Positive", 1, 3), UndefinedValue}}

DynTags ==
    {"AdditionExpression", "SubtractionExpression", "MultiplicationExpression",
     "DivisionExpression"}

DynNodesOver(lefts, rights) ==
    {BinaryExpression(t, l, r) : t \in DynTags, l \in lefts, r \in rights}

DynTrees ==
    DynLeaves \cup DynNodesOver(DynLeaves, DynLeaves)
        \cup DynNodesOver(DynNodesOver(DynLeaves, DynLeaves), DynLeaves)

\* The pairs the grammar hands over.
NumberPair(str) == Pair("number", str, <<>>)

VariablePair(name) == Pair("variable", name, <<>>)

OperatorPair(rule) == Pair(rule, <<>>, <<>>)

\* (x + 2)
ParenPair ==
    Pair("paren_expression", <<>>,
         <<VariablePair("x"), OperatorPair("plus"), NumberPair(<<"2">>)>>)

\* 2, x, y or (x + 2), one to MaxImplicit of them side by side.
ImplicitPairs ==
    {Pair("implicit_multiplication", <<>>, inner) :
        inner \in UNION {[1..n -> {NumberPair(<<"2">>), VariablePair("x"), VariablePair("y"),
                                    ParenPair}] : n \in 1..MaxImplicit}}

InfixRules == {"plus", "minus", "cdot", "asterisk", "slash"}

\* A primary with or without a negate before it and a factorial after it.
OperandsOver(primaries) ==
    {pre \o <<p>> \o post :
        pre \in {<<>>, <<OperatorPair("negate")>>},
        p \in primaries,
        post \in {<<>>, <<OperatorPair("factorial")>>}}

SimpleOperands == OperandsOver({NumberPair(<<"2">>), VariablePair("x")})

\* One operand, also under two negates or two factorials; two operands; three.
PairSequences ==
    OperandsOver({NumberPair(<<"2">>), VariablePair("x"), ParenPair} \cup ImplicitPairs)
        \cup {<<OperatorPair("negate"), OperatorPair("negate"), VariablePair("x")>>,
              <<VariablePair("x"), OperatorPair("factorial"), OperatorPair("factorial")>>}
        \cup {a \o <<OperatorPair(o)>> \o b :
                a \in OperandsOver({NumberPair(<<"2">>), VariablePair("x"), ParenPair}),
                o \in InfixRules,
                b \in OperandsOver({NumberPair(<<"2">>), VariablePair("x"), ParenPair})}
        \cup {a \o <<OperatorPair(o)>> \o b \o <<OperatorPair(q)>> \o c :
                a \in SimpleOperands, o \in InfixRules, b \in SimpleOperands,
                q \in InfixRules, c \in SimpleOperands}

\* x = 3, y = 4
Bindings == {[n \in {"x", "y"} |-> IF n = "x" THEN Rational(3, 1) ELSE Rational(4, 1)]}

\* The bindings: x unbound, or bound to a Rational or to Undefined; y never bound.
VariableMaps == {<<>>} \cup {[n \in {"x"} |-> v] : v \in {Rational(3, 1), Undefined}}

(***************************************************************************)
(* The state machine.                                                      *)
(***************************************************************************)
\* Nothing has been called; the build either checks integer overflow (debug) or
\* does not (release).
Init ==
    /\ op = "none"
    /\ lhs = None
    /\ rhs = None
    /\ out = None
    /\ pc = "idle"
    /\ stack = <<>>
    /\ overflow_checks \in BOOLEAN

\* No operation has run yet.
Fresh == op = "none"

\* One whole call of a pure operation: operands in, outcome out.  Nothing survives
\* a computation (main runs one and exits), so every call is made in a fresh state.
Call(name, a, b, result) ==
    /\ op' = name
    /\ lhs' = a
    /\ rhs' = b
    /\ out' = result
    /\ pc' = "done"
    /\ stack' = <<>>
    /\ UNCHANGED overflow_checks

ValueAdd ==
    /\ Fresh
    /\ \E a \in Values, b \in Values : Call("Value::add", a, b, Value_add(a, b))

ValueSub ==
    /\ Fresh
    /\ \E a \in Values, b \in Values : Call("Value::sub", a, b, Value_sub(a, b))

ValueMul ==
    /\ Fresh
    /\ \E a \in Values, b \in Values : Call("Value::mul", a, b, Value_mul(a, b))

ValueDiv ==
    /\ Fresh
    /\ \E a \in Values, b \in Values : Call("Value::div", a, b, Value_div(a, b))

ValueNeg ==
    /\ Fresh
    /\ \E a \in Values : Call("Value::neg", a, None, Value_neg(a))

ValueFactorial ==
    /\ Fresh
    /\ \E a \in FactorialOperands : Call("Value::factorial", a, None, factorial(a))

SimplifyRational ==
    /\ Fresh
    /\ \E a \in Values : Call("simplify_rational", a, None, simplify_rational(a))

ValueEq ==
    /\ Fresh
    /\ \E a \in Values, b \in Values : Call("Value::eq", a, b, Value_eq(a, b))

RationalValueMul ==
    /\ Fresh
    /\ \E a \in RationalValues, b \in DynValues :
        Call("RationalValue::mul", a, b, RationalValue_mul(a, b))

RationalValueDiv ==
    /\ Fresh
    /\ \E a \in RationalValues, b \in DynValues :
        Call("RationalValue::div", a, b, RationalValue_div(a, b))

RationalValueCmp ==
    /\ Fresh
    /\ \E a \in RationalValues, b \in DynValues :
        Call("RationalValue::cmp", a, b, RationalValue_cmp(a, b))

RationalValueSimplified ==
    /\ Fresh
    /\ \E a \in RationalValues : Call("RationalValue::simplified", a, None, simplified(a))

UndefinedValueOp ==
    /\ Fresh
    /\ \E name \in {"add", "sub", "mul", "div"}, b \in DynValues :
        Call("UndefinedValue::" \o name, UndefinedValue, b, UndefinedValue_op(UndefinedValue, b))

\* A caller enters RationalValue::add or ::sub.
RationalValueEnter(fn, a, b) ==
    /\ op' = "RationalValue::" \o fn
    /\ lhs' = a
    /\ rhs' = b
    /\ out' = None
    /\ pc' = "call"
    /\ stack' = <<Frame(fn, a, b)>>
    /\ UNCHANGED overflow_checks

RationalValueAdd ==
    /\ Fresh
    /\ \E a \in RationalValues, b \in DynValues : RationalValueEnter("add", a, b)

RationalValueSub ==
    /\ Fresh
    /\ \E a \in RationalValues, b \in DynValues : RationalValueEnter("sub", a, b)

\* The innermost call runs its body: it returns, panics, or calls the other method,
\* which takes another frame of the stack, or finds none left.
RationalValueBody ==
    /\ pc = "call"
    /\ LET top  == stack[Len(stack)]
           step == IF top.fn = "add" THEN add_body(top.self, top.other)
                                     ELSE sub_body(top.self, top.other)
       IN  IF step.do = "return"
           THEN IF step.value.kind = "Panic"
                THEN /\ out' = PanicValue
                     /\ pc' = "done"
                     /\ stack' = <<>>
                ELSE /\ out' = step.value
                     /\ pc' = "return"
                     /\ stack' = stack
           ELSE IF Len(stack) >= StackLimit
                THEN /\ out' = StackOverflow
                     /\ pc' = "done"
                     /\ stack' = <<>>
                ELSE /\ out' = out
                     /\ pc' = "call"
                     /\ stack' = [stack EXCEPT ![Len(stack)].site = step.site]
                                      \o <<step.frame>>
    /\ UNCHANGED <<op, lhs, rhs, overflow_checks>>

\* The innermost call returns out to its caller, which resumes at its call site.
RationalValueReturn ==
    /\ pc = "return"
    /\ LET rest == SubSeq(stack, 1, Len(stack) - 1)
       IN  IF rest = <<>>
           THEN /\ out' = out
                /\ pc' = "done"
                /\ stack' = <<>>
           ELSE LET value == resume(rest[Len(rest)].site, out)
                IN  IF value.kind = "Panic"
                    THEN /\ out' = PanicValue
                         /\ pc' = "done"
                         /\ stack' = <<>>
                    ELSE /\ out' = value
                         /\ pc' = "return"
                         /\ stack' = rest
    /\ UNCHANGED <<op, lhs, rhs, overflow_checks>>

ValueFromStr ==
    /\ Fresh
    /\ \E s \in Literals : Call("Value::from_str", s, None, Value_from_str(s))

RationalValueFromStr ==
    /\ Fresh
    /\ \E s \in Literals : Call("RationalValue::from_str", s, None, RationalValue_from_str(s))

ExpressionEvaluate ==
    /\ Fresh
    /\ \E tree \in Trees, variable_map \in VariableMaps :
        Call("Expression::evaluate", tree, variable_map, evaluate(tree, variable_map))

\* expression.simplified(): a new tree is returned, the receiver is only read.
ExpressionSimplified ==
    /\ Fresh
    /\ \E tree \in SimplifyTrees :
        Call("Expression::simplified", tree, None, Expression_simplified(tree))

\* A further pass over the tree a pass returned, in place: *self = self.simplified().
\* rhs keeps the tree as it was before the pass.
ExpressionSimplify ==
    /\ op \in {"Expression::simplified", "Expression::simplify"}
    /\ out.tag # "Panic"
    /\ op' = "Expression::simplify"
    /\ rhs' = out
    /\ out' = Expression_simplified(out)
    /\ pc' = "done"
    /\ UNCHANGED <<lhs, stack, overflow_checks>>

DynExpressionSimplified ==
    /\ Fresh
    /\ \E tree \in DynTrees :
        Call("dyn Expression::simplified", tree, None, dyn_simplified(tree))

ParsePairs ==
    /\ Fresh
    /\ \E pairs \in PairSequences : Call("parse_pairs", pairs, None, parse_pairs(pairs))

\* The tree parse_pairs returned for an implicit multiplication is evaluated.
EvaluateParsed ==
    /\ op = "parse_pairs"
    /\ lhs \in {<<p>> : p \in ImplicitPairs}
    /\ out.tag # "Panic"
    /\ \E variable_map \in Bindings :
        /\ op' = "parse_pairs, Expression::evaluate"
        /\ rhs' = variable_map
        /\ out' = evaluate(out, variable_map)
    /\ pc' = "done"
    /\ UNCHANGED <<lhs, stack, overflow_checks>>

ExpressionDisplay ==
    /\ Fresh
    /\ \E tree \in Trees : Call("Expression::fmt", tree, None, Expression_fmt(tree))

DynExpressionToString ==
    /\ Fresh
    /\ \E tree \in DynTrees : Call("dyn Expression::to_string", tree, None, dyn_to_string(tree))

\* The Value an arithmetic operation returned is displayed; rhs keeps the name of
\* the operation.
ValueDisplay ==
    /\ op \in {"Value::add", "Value::sub", "Value::mul", "Value::div", "Value::neg"}
    /\ out.kind \in {"Rational", "Undefined"}
    /\ op' = "Value::fmt"
    /\ lhs' = out
    /\ rhs' = op
    /\ out' = Value_fmt(out)
    /\ pc' = "done"
    /\ UNCHANGED <<stack, overflow_checks>>

\* The dyn Value an arithmetic operation returned is turned into its text.
DynValueToString ==
    /\ op \in {"RationalValue::add", "RationalValue::sub", "RationalValue::mul",
               "RationalValue::div", "UndefinedValue::add", "UndefinedValue::sub",
               "UndefinedValue::mul", "UndefinedValue::div"}
    /\ pc = "done"
    /\ out.kind \in {"RationalValue", "UndefinedValue"}
    /\ op' = "dyn Value::to_string"
    /\ lhs' = out
    /\ rhs' = op
    /\ out' = dyn_Value_to_string(out)
    /\ pc' = "done"
    /\ UNCHANGED <<stack, overflow_checks>>

\* main: the pairs of the line read are parsed, the tree is simplified once and the
\* result is printed.
Main ==
    /\ Fresh
    /\ \E pairs \in PairSequences :
        LET expression == parse_pairs(pairs)
            result     == IF expression.tag = "Panic"
                          THEN expression
                          ELSE Expression_simplified(expression)
        IN  Call("main", pairs, None,
                 IF result.tag = "Panic" THEN result ELSE Expression_fmt(result))

Next ==
    \/ ValueFromStr
    \/ Main
    \/ ExpressionDisplay
    \/ DynExpressionToString
    \/ ValueDisplay
    \/ DynValueToString
    \/ ParsePairs
    \/ EvaluateParsed
    \/ ExpressionSimplified
    \/ ExpressionSimplify
    \/ DynExpressionSimplified
    \/ RationalValueFromStr
    \/ ExpressionEvaluate
    \/ RationalValueAdd
    \/ RationalValueSub
    \/ RationalValueBody
    \/ RationalValueReturn
    \/ RationalValueMul
    \/ RationalValueDiv
    \/ RationalValueCmp
    \/ RationalValueSimplified
    \/ UndefinedValueOp
    \/ ValueAdd
    \/ ValueSub
    \/ ValueMul
    \/ ValueDiv
    \/ ValueNeg
    \/ ValueFactorial
    \/ SimplifyRational
    \/ ValueEq

Spec == Init /\ [][Next]_vars

(***************************************************************************)
(* The claims.                                                             *)
(***************************************************************************)
\* The chain of calls of RationalValue::add or ::sub has ended.
Ended == pc = "done"

\* The signed numerator of a RationalValue.
SignedNum(v) == IF v.sign = "Negative" THEN -v.num ELSE v.num

\* Numerator and denominator share no common factor greater than one.
Canonical(v) == gcd(v.num, v.den) = 1

\* C1: dividing any Rational by a Rational whose numerator is zero returns
\* Undefined: never a Rational with a zero denominator, never a panic.
C1_DivByZeroIsUndefined ==
    /\ op = "Value::div" /\ lhs.kind = "Rational" /\ rhs.kind = "Rational" /\ rhs.num = 0
           => out = Undefined
    /\ op = "RationalValue::div" /\ rhs.kind = "RationalValue" /\ rhs.num = 0
           => out = UndefinedValue

\* C2: for Rational operands of every combination of signs and either order of
\* magnitude, add returns a Rational equal to the exact sum and sub a Rational
\* equal to the exact difference.
C2_AddSubExact ==
    /\ op = "Value::add" /\ lhs.kind = "Rational" /\ rhs.kind = "Rational"
           => /\ out.kind = "Rational" /\ out.den # 0
              /\ out.num * (lhs.den * rhs.den)
                     = (lhs.num * rhs.den + rhs.num * lhs.den) * out.den
    /\ op = "Value::sub" /\ lhs.kind = "Rational" /\ rhs.kind = "Rational"
           => /\ out.kind = "Rational" /\ out.den # 0
              /\ out.num * (lhs.den * rhs.den)
                     = (lhs.num * rhs.den - rhs.num * lhs.den) * out.den
    /\ op = "RationalValue::add" /\ rhs.kind = "RationalValue" /\ Ended
           => /\ out.kind = "RationalValue" /\ out.den # 0
              /\ SignedNum(out) * (lhs.den * rhs.den)
                     = (SignedNum(lhs) * rhs.den + SignedNum(rhs) * lhs.den) * out.den
    /\ op = "RationalValue::sub" /\ rhs.kind = "RationalValue" /\ Ended
           => /\ out.kind = "RationalValue" /\ out.den # 0
              /\ SignedNum(out) * (lhs.den * rhs.den)
                     = (SignedNum(lhs) * rhs.den - SignedNum(rhs) * lhs.den) * out.den

\* C3: add and sub always terminate and return a Value: for every pair of
\* operands the chain of calls between them reaches a base case (it does not run
\* the stack out) and does not panic.
C3_AddSubReturnAValue ==
    /\ op \in {"RationalValue::add", "RationalValue::sub"} /\ Ended
           => out.kind \in {"RationalValue", "UndefinedValue"}
    /\ op \in {"Value::add", "Value::sub"}
           => out.kind \in {"Rational", "Undefined"}

\* C4: the Rational that add, sub, mul, div or negate returns for Rational operands
\* is in canonical form, and canonicalizing a value gives a value that compares
\* equal to it.
C4_ResultsAreCanonical ==
    /\ op \in {"Value::add", "Value::sub", "Value::mul", "Value::div", "Value::neg"}
           /\ out.kind = "Rational"
           => Canonical(out)
    /\ op \in {"RationalValue::add", "RationalValue::sub", "RationalValue::mul",
               "RationalValue::div"}
           /\ Ended /\ out.kind = "RationalValue"
           => Canonical(out)
    /\ op = "RationalValue::simplified"
           => out.kind = "RationalValue" /\ RationalValue_cmp(out, lhs) = "Equal"
    /\ op = "simplify_rational" /\ lhs.kind = "Rational"
           => out.kind = "Rational" /\ Value_eq(out, lhs)

\* C5: compare returns the ordering of the signed values of its two Rationals,
\* and two Rationals are equal only when they are the same signed rational.
C5_CompareIsSigned ==
    /\ op = "RationalValue::cmp" /\ rhs.kind = "RationalValue"
           => out = Ordering(SignedNum(lhs) * rhs.den, SignedNum(rhs) * lhs.den)
    /\ op = "Value::eq" /\ lhs.kind = "Rational" /\ rhs.kind = "Rational"
           => (out <=> lhs.num * rhs.den = rhs.num * lhs.den)

\* The parts of a literal: its sign, its integer part, its fractional digits.
LiteralNegative(s) == s # <<>> /\ s[1] = "-"

LiteralBody(s) == split_once(IF LiteralNegative(s) THEN Tail(s) ELSE s)

\* (I * 10^k + F): the numerator of the literal over 10^k.
LiteralScaled(s) ==
    digits_value(LiteralBody(s).before) * 10 ^ Len(LiteralBody(s).after)
        + digits_value(LiteralBody(s).after)

\* C6: a literal with integer part I and k fractional digits F parses to a
\* Rational equal to (I * 10^k + F) / 10^k, negative when the literal starts with
\* '-' and positive otherwise.
C6_LiteralValue ==
    /\ op = "Value::from_str"
           => /\ out.kind = "Rational" /\ out.den # 0
              /\ out.num * 10 ^ Len(LiteralBody(lhs).after)
                     = (IF LiteralNegative(lhs) THEN -LiteralScaled(lhs)
                                                ELSE LiteralScaled(lhs)) * out.den
    /\ op = "RationalValue::from_str"
           => /\ out.kind = "RationalValue" /\ out.den # 0
              /\ out.sign = (IF LiteralNegative(lhs) THEN "Negative" ELSE "Positive")
              /\ out.num * 10 ^ Len(LiteralBody(lhs).after) = LiteralScaled(lhs) * out.den

\* n!, exactly, in limbs.
RECURSIVE ExactFactorial(_)
ExactFactorial(n) == IF n < 2 THEN <<1>> ELSE MulLimbs(ExactFactorial(n - 1), n, 0)

\* C7: factorial returns Rational(n!, 1) for every Rational n/1 with n >= 0, and
\* Undefined for every other input.
C7_Factorial ==
    op = "Value::factorial"
        => IF lhs.kind = "Rational" /\ lhs.den = 1 /\ lhs.num >= 0
           THEN out = Rational(Wide(FALSE, ExactFactorial(lhs.num)), 1)
           ELSE out = Undefined

\* C8: add, sub, mul and div return the Undefined value whenever either operand
\* is Undefined or is not a Rational.
C8_UndefinedAbsorbs ==
    /\ op \in {"Value::add", "Value::sub", "Value::mul", "Value::div"}
           /\ (lhs.kind # "Rational" \/ rhs.kind # "Rational")
           => out = Undefined
    /\ op \in {"RationalValue::add", "RationalValue::sub", "RationalValue::mul",
               "RationalValue::div"}
           /\ Ended /\ rhs.kind # "RationalValue"
           => out = UndefinedValue
    /\ op \in {"UndefinedValue::add", "UndefinedValue::sub", "UndefinedValue::mul",
               "UndefinedValue::div"}
           => out = UndefinedValue

\* A Rational has met an Undefined right operand.
C8_Witness ==
    /\ op = "Value::sub"
    /\ lhs = Rational(1, 2)
    /\ rhs = Undefined
    /\ out = Undefined

RECURSIVE ContainsEquals(_)
ContainsEquals(tree) ==
    CASE tree.tag \in {"Value", "Variable"}      -> FALSE
      [] tree.tag = "Equals"                     -> TRUE
      [] tree.tag \in {"Negation", "Factorial"}  -> ContainsEquals(tree.e)
      [] OTHER                                   -> ContainsEquals(tree.a) \/ ContainsEquals(tree.b)

\* C9: evaluate fails with CantEvaluateVariant exactly when the tree contains an
\* Equals node, and returns a Value otherwise.
C9_OnlyEqualsFails ==
    op = "Expression::evaluate"
        => IF ContainsEquals(lhs)
           THEN out = CantEvaluateVariant
           ELSE out.kind \in {"Rational", "Undefined", "Expression"}

\* C10: evaluating Variable(name) yields the bound value when the binding has the
\* key and Undefined when it has not, never a failure.
C10_VariableLookup ==
    op = "Expression::evaluate" /\ lhs.tag = "Variable"
        => /\ out.kind \notin {"CantEvaluateVariant", "Panic"}
           /\ lhs.n \in DOMAIN rhs => out = rhs[lhs.n]
           /\ lhs.n \notin DOMAIN rhs => out = Undefined

\* A variable that a binding of another variable leaves unbound has been evaluated.
C10_Witness ==
    /\ op = "Expression::evaluate"
    /\ lhs = VariableExpr("y")
    /\ DOMAIN rhs = {"x"}
    /\ out = Undefined

\* The exact value the Rational operation of the node has on two literals: the
\* quotient by zero is Undefined, and so is every operation on a non-Rational.
ExactCanonical(n, d) ==
    IF d = 0
    THEN Undefined
    ELSE LET g == gcd(n, d)
             s == IF d < 0 THEN -1 ELSE 1
         IN  Rational((s * n) \div g, (s * d) \div g)

ExactOperation(tag, a, b) ==
    IF a.kind # "Rational" \/ b.kind # "Rational"
    THEN Undefined
    ELSE CASE tag = "Addition" -> ExactCanonical(a.num * b.den + b.num * a.den, a.den * b.den)
           [] tag = "Subtraction" ->
                ExactCanonical(a.num * b.den - b.num * a.den, a.den * b.den)
           [] tag = "Multiplication" -> ExactCanonical(a.num * b.num, a.den * b.den)
           [] tag = "Division" -> ExactCanonical(a.num * b.den, a.den * b.num)

\* C11: simplifying Add/Sub/Mul/Div(l, r) simplifies l and r first; when both come
\* out as literals the result is the one literal holding the Rational operation
\* applied to them, otherwise the same node over the two simplified children.  The
\* trait-object nodes, whose children are always literals, return a literal too.
C11_BinaryFolds ==
    /\ (op = "Expression::simplified"
            /\ lhs.tag \in {"Addition", "Subtraction", "Multiplication", "Division"})
        => LET a == Expression_simplified(lhs.a)
               b == Expression_simplified(lhs.b)
           IN  IF a.tag = "Value" /\ b.tag = "Value"
               THEN out = ValueExpr(ExactOperation(lhs.tag, a.v, b.v))
               ELSE out = BinaryExpr(lhs.tag, a, b)
    /\ (op = "dyn Expression::simplified" /\ lhs.tag \in DynTags)
        => out.tag = "ValueExpression"

\* Some node of the tree is a Negation or a Factorial.
RECURSIVE ContainsUnary(_)
ContainsUnary(tree) ==
    CASE tree.tag \in {"Value", "Variable"} -> FALSE
      [] tree.tag \in UnaryTags -> TRUE
      [] OTHER -> ContainsUnary(tree.a) \/ ContainsUnary(tree.b)

\* C12: a Negation or Factorial node is never folded: it simplifies to the same
\* node over its simplified operand, and a tree that contains one is not a single
\* literal after any number of passes.
C12_UnaryNeverFolds ==
    /\ (op = "Expression::simplified" /\ lhs.tag \in UnaryTags)
        => LET e == Expression_simplified(lhs.e)
           IN  out = IF e.tag = "Panic" THEN e ELSE UnaryExpr(lhs.tag, e)
    /\ (op \in {"Expression::simplified", "Expression::simplify"} /\ ContainsUnary(lhs))
        => out.tag # "Value"

\* C12 happens: the operand of a Negation folds to the literal 4, the Negation stays
\* over it after a second pass.
C12_Witness ==
    /\ op = "Expression::simplify"
    /\ lhs = UnaryExpr("Negation", BinaryExpr("Addition", ValueExpr(Rational(2, 1)),
                                                          ValueExpr(Rational(2, 1))))
    /\ out = UnaryExpr("Negation", ValueExpr(Rational(4, 1)))

\* C17: a second pass returns the tree the first pass returned, and no pass changes
\* the tree simplified was called on.
C17_SimplifyIsIdempotent ==
    /\ [](op = "Expression::simplify" => out = rhs)
    /\ [][(op \in {"Expression::simplified", "Expression::simplify"}) => (lhs' = lhs)]_vars

\* C17 happens: the first pass folded 2 + 2 under a sum with x, the second pass
\* returned the same tree.
C17_Witness ==
    /\ op = "Expression::simplify"
    /\ lhs = BinaryExpr("Addition", BinaryExpr("Addition", ValueExpr(Rational(2, 1)),
                                                           ValueExpr(Rational(2, 1))),
                        VariableExpr("x"))
    /\ rhs = BinaryExpr("Addition", ValueExpr(Rational(4, 1)), VariableExpr("x"))
    /\ out = rhs

\* The place of the last pair of the sequence whose rule is one of rules, 0 if none.
RECURSIVE LastOf(_, _)
LastOf(pairs, rules) ==
    IF pairs = <<>> THEN 0
    ELSE IF pairs[Len(pairs)].rule \in rules THEN Len(pairs)
    ELSE LastOf(SubSeq(pairs, 1, Len(pairs) - 1), rules)

\* The tree the four levels determine: split at the last additive operator, or else
\* at the last multiplicative one, or else take off a leading negate, or else a
\* trailing factorial; what is left is a primary.
RECURSIVE PrecedenceTree(_)
PrecedenceTree(pairs) ==
    LET additive       == LastOf(pairs, {"plus", "minus"})
        multiplicative == LastOf(pairs, {"cdot", "asterisk", "slash"})
        at             == IF additive > 0 THEN additive ELSE multiplicative
    IN  IF at > 0
        THEN BinaryExpr(CASE pairs[at].rule = "plus"  -> "Addition"
                          [] pairs[at].rule = "minus" -> "Subtraction"
                          [] pairs[at].rule = "slash" -> "Division"
                          [] OTHER                    -> "Multiplication",
                        PrecedenceTree(SubSeq(pairs, 1, at - 1)),
                        PrecedenceTree(SubSeq(pairs, at + 1, Len(pairs))))
        ELSE IF pairs[1].rule = "negate"
             THEN UnaryExpr("Negation", PrecedenceTree(Tail(pairs)))
             ELSE IF pairs[Len(pairs)].rule = "factorial"
                  THEN UnaryExpr("Factorial",
                                 PrecedenceTree(SubSeq(pairs, 1, Len(pairs) - 1)))
                  ELSE IF pairs[1].rule = "paren_expression"
                       THEN PrecedenceTree(pairs[1].inner)
                       ELSE map_primary(pairs[1])

\* C13: the parser builds the tree by precedence: + and - loosest and to the left,
\* the dot, * and / tighter and to the left, the prefix minus tighter than those, the
\* postfix factorial tightest.
C13_PrecedenceTree ==
    op = "parse_pairs" => out = PrecedenceTree(lhs)

\* C13 happens: -x! * 2 - x is parsed into Sub(Mul(Negate(Factorial(x)), 2), x).
C13_Witness ==
    /\ op = "parse_pairs"
    /\ lhs = <<OperatorPair("negate"), VariablePair("x"), OperatorPair("factorial"),
               OperatorPair("asterisk"), NumberPair(<<"2">>), OperatorPair("minus"),
               VariablePair("x")>>
    /\ out = BinaryExpr("Subtraction",
                 BinaryExpr("Multiplication",
                     UnaryExpr("Negation", UnaryExpr("Factorial", VariableExpr("x"))),
                     ValueExpr(Rational(2, 1))),
                 VariableExpr("x"))

\* o1 * (o2 * (... * on))
RECURSIVE RightNested(_)
RightNested(operands) ==
    IF Len(operands) = 1
    THEN operands[1]
    ELSE BinaryExpr("Multiplication", operands[1], RightNested(Tail(operands)))

\* 2xy
TwoXY ==
    <<Pair("implicit_multiplication", <<>>,
           <<NumberPair(<<"2">>), VariablePair("x"), VariablePair("y")>>)>>

\* C14: an implicit multiplication of o1..on is parsed into o1 * (o2 * (... * on)),
\* the operands in their order; 2xy evaluated with x = 3 and y = 4 is 24.
C14_ImplicitMultiplication ==
    /\ (op = "parse_pairs" /\ Len(lhs) = 1 /\ lhs[1].rule = "implicit_multiplication")
        => out = RightNested([i \in 1..Len(lhs[1].inner) |-> map_primary(lhs[1].inner[i])])
    /\ (op = "parse_pairs, Expression::evaluate" /\ lhs = TwoXY)
        => out = Rational(24, 1)

\* C14 happens: 2xy has been parsed and evaluated with x = 3, y = 4.
C14_Witness ==
    /\ op = "parse_pairs, Expression::evaluate"
    /\ lhs = TwoXY
    /\ rhs["x"] = Rational(3, 1)
    /\ rhs["y"] = Rational(4, 1)
    /\ out = Rational(24, 1)

\* The multiplication is one the sentence elides: its left operand is a literal, or
\* its right operand is a variable or such a multiplication itself.
RECURSIVE StatedElided(_)
StatedElided(tree) ==
    /\ tree.tag = "Multiplication"
    /\ \/ tree.a.tag = "Value"
       \/ tree.b.tag = "Variable"
       \/ StatedElided(tree.b)

\* The symbol between the operands of a parenthesized node.
SymbolOf(tag) ==
    CASE tag \in {"Addition", "AdditionExpression"}             -> "+"
      [] tag \in {"Subtraction", "SubtractionExpression"}       -> "-"
      [] tag \in {"Multiplication", "MultiplicationExpression"} -> "*"
      [] tag \in {"Division", "DivisionExpression"}             -> "/"
      [] tag = "Equals"                                         -> "="

\* C15 as stated: Add, Sub, Div and Equals render as "(L op R)"; Mul(L, R) renders
\* as L and R side by side when L is a literal and/or R is a variable or another
\* such multiplication, and as "(L * R)" in every other case.
C15_RenderAsStated ==
    /\ (op = "Expression::fmt" /\ lhs.tag \in {"Addition", "Subtraction", "Division", "Equals"})
        => out = parenthesized(Expression_fmt(lhs.a), SymbolOf(lhs.tag), Expression_fmt(lhs.b))
    /\ (op = "Expression::fmt" /\ lhs.tag = "Multiplication")
        => out = IF StatedElided(lhs)
                 THEN Expression_fmt(lhs.a) \o Expression_fmt(lhs.b)
                 ELSE parenthesized(Expression_fmt(lhs.a), "*", Expression_fmt(lhs.b))
    /\ (op = "dyn Expression::to_string" /\ lhs.tag = "MultiplicationExpression")
        => out = IF lhs.lhs.tag = "ValueExpression"
                 THEN dyn_to_string(lhs.lhs) \o dyn_to_string(lhs.rhs)
                 ELSE parenthesized(dyn_to_string(lhs.lhs), "*", dyn_to_string(lhs.rhs))

\* C15, amended: Add, Sub, Div and Equals render as "(L op R)"; Mul(L, R) of the
\* Expression enum renders as L and R side by side exactly when L is a literal, or L
\* and R are both variables, and as "(L * R)" in every other case; a trait-object
\* node, MultiplicationExpression too, always renders as "(L op R)".
C15_RenderAmended ==
    /\ (op = "Expression::fmt" /\ lhs.tag \in {"Addition", "Subtraction", "Division", "Equals"})
        => out = parenthesized(Expression_fmt(lhs.a), SymbolOf(lhs.tag), Expression_fmt(lhs.b))
    /\ (op = "Expression::fmt" /\ lhs.tag = "Multiplication")
        => out = IF \/ lhs.a.tag = "Value"
                    \/ lhs.a.tag = "Variable" /\ lhs.b.tag = "Variable"
                 THEN Expression_fmt(lhs.a) \o Expression_fmt(lhs.b)
                 ELSE parenthesized(Expression_fmt(lhs.a), "*", Expression_fmt(lhs.b))
    /\ (op = "dyn Expression::to_string" /\ lhs.tag \in DynTags)
        => out = parenthesized(dyn_to_string(lhs.lhs), SymbolOf(lhs.tag),
                               dyn_to_string(lhs.rhs))

\* C15 happens: the product of a sum and a variable is rendered with its operator
\* and parentheses, ((x + y) * x).
C15_Witness ==
    /\ op = "Expression::fmt"
    /\ lhs = BinaryExpr("Multiplication",
                 BinaryExpr("Addition", VariableExpr("x"), VariableExpr("y")),
                 VariableExpr("x"))
    /\ out = <<"(", "(", "x", " ", "+", " ", "y", ")", " ", "*", " ", "x", ")">>

\* The text of the fraction of magnitude n / d, negative or not: "N" when the
\* canonical denominator is one and "N/D" otherwise, one '-' before a negative value.
CanonicalText(negative, n, d) ==
    LET g == gcd(n, d)
        N == fmt_digits(n \div g)
        D == fmt_digits(d \div g)
    IN  (IF negative /\ n # 0 THEN <<"-">> ELSE <<>>)
            \o (IF d \div g = 1 THEN N ELSE N \o <<"/">> \o D)

\* C16: a Rational an arithmetic operation returned is displayed as "N", or "N/D"
\* when its canonical denominator is not one, N and D without a sign and one leading
\* '-' for a negative value; Undefined is displayed as "undefined".
C16_Display ==
    /\ (op = "Value::fmt" /\ lhs.kind = "Rational")
        => /\ lhs.den # 0
           /\ out = CanonicalText((lhs.num < 0) # (lhs.den < 0), Abs(lhs.num), Abs(lhs.den))
    /\ (op = "Value::fmt" /\ lhs.kind = "Undefined")
        => out = <<"u", "n", "d", "e", "f", "i", "n", "e", "d">>
    /\ (op = "dyn Value::to_string" /\ lhs.kind = "RationalValue")
        => /\ lhs.den # 0
           /\ out = CanonicalText(lhs.sign = "Negative", lhs.num, lhs.den)
    /\ (op = "dyn Value::to_string" /\ lhs.kind = "UndefinedValue")
        => out = <<"u", "n", "d", "e", "f", "i", "n", "e", "d">>

====
